---------------------------- MODULE Spec2Model ----------------------------
(***************************************************************************)
(* A model of the betacorn dice contract (src/betacorn.hpp,                *)
(* src/betacorn.cpp): the accounts, games and matches tables, and the six  *)
(* entry points withdraw, commit, cancelcommit, reveal, collect and        *)
(* acorn_transfer.  Every entry point is one atomic transaction: a failed  *)
(* check() or a failed inline transfer aborts it and rolls back every      *)
(* write it made.                                                          *)
(***************************************************************************)
EXTENDS Integers, Sequences, FiniteSets, TLC

(***************************************************************************)
(* Program constants (betacorn.hpp:52-61).                                 *)
(***************************************************************************)
NULL_NAME == 0
NULL_GUESS == 127
MAX_BET_TO_BANKROLL_RATIO == 100
MIN_TRANSFER_SHELLS == 100
GAME_TIMEOUT_SECS == 300
\* The 64-bit key of the sha256 of the all-zero source.  The model numbers
\* the 64-bit keys 0, 1, 2, ... and gives the all-zero source the key 0.
ZERO_SOURCE == 0
ZERO_ACORNS == 0
ACORN_SHELL == 1
MIN_BALANCE == 500000
ACORN_SYMBOL == "ACORN"

(***************************************************************************)
(* Bounds of the model.                                                    *)
(***************************************************************************)
\* the clock advances in steps of TickSecs up to MaxTime, so that a match is
\* seen before, exactly at and after its deadline
TickSecs == GAME_TIMEOUT_SECS
MaxTime == 600
\* number of accepted transfers (ledger deposits and matched wagers) in a
\* behaviour
MaxTransfers == 4

(***************************************************************************)
(* Inputs.                                                                 *)
(***************************************************************************)
\* eosio names, by their 64-bit value; NULL_NAME is name("")
Names == {1, 2}
AnyName == Names \cup {NULL_NAME}
\* the contract's own account (_self)
SELF == 9
\* 32-byte sources; 0 stands for the all-zero source
Sources == {0, 1, 2}
\* a checksum256 is <<p64[0], the other 192 bits>>; <<0, 1>> is no hash of a
\* source of Sources and shares its first word with the hash of source 0
Commitments == {<<0, 0>>, <<0, 1>>, <<1, 0>>, <<2, 0>>}
TransferAmounts == {50, 5000, 500000}
WithdrawAmounts == {0, 50, 400000}
Memos == {"odd", "even", "deposit", "oDd"}

\* sha256 of a source: injective on Sources; the all-zero source hashes to
\* a checksum whose first 64-bit word is ZERO_SOURCE
sha256(source) == <<source, 0>>

\* source_array[31] & 1
result_bit(source) == source % 2

get_hash_prefix(hash) == hash[1]

(***************************************************************************)
(* Table rows and their keys.                                              *)
(***************************************************************************)
\* symbol("ACORN", 4).code().raw()
symbol_code_raw(symbol) == IF symbol = ACORN_SYMBOL THEN 1 ELSE 2

\* account::primary_key(): the symbol code of the balance.  Every balance
\* is in ACORN, so every row of the accounts table has the same key.
account_primary_key(a) == symbol_code_raw(ACORN_SYMBOL)

account_get_owner(a) == a.owner

game_primary_key(g) == get_hash_prefix(g.commitment)

game_get_host(g) == g.host

match_primary_key(m) == get_hash_prefix(m.commitment)

match_get_player(m) == m.player

\* struct account
account == [owner : Names, balance : Nat]

\* struct game
game == [commitment : Commitments, host : Names]

\* struct match
match ==
    [commitment : Commitments, host : Names, guess : {0, 1, NULL_GUESS},
     player : AnyName, bet : Nat, deadline : Nat]

VARIABLES
    accounts,     \* the accounts table: set of [owner, balance]
    games,        \* the games table: set of [commitment, host]
    matches,      \* the matches table: set of [commitment, host, guess, player, bet, deadline]
    now,          \* current_time_point().sec_since_epoch()
    deposited,    \* sum of all transfers accepted with a deposit memo
    wagered,      \* sum of all transfers accepted as bets
    paid,         \* sum of all amounts sent out by pay()
    nTransfers    \* number of accepted deposits and matched bets

vars == <<accounts, games, matches, now, deposited, wagered, paid, nTransfers>>

(***************************************************************************)
(* A transaction in progress: the three tables as written so far, the      *)
(* inline transfers sent so far, and whether it has aborted (ok = FALSE,   *)
(* err the message of the failed check, info the amount the message        *)
(* reports).                                                               *)
(***************************************************************************)
Begin ==
    [ok |-> TRUE, err |-> "", info |-> 0,
     acc |-> accounts, gms |-> games, mts |-> matches, pays |-> <<>>]

Abort(db, msg) == [db EXCEPT !.ok = FALSE, !.err = msg]

RECURSIVE SumPays(_)
SumPays(ps) == IF ps = <<>> THEN 0 ELSE Head(ps).amount + SumPays(Tail(ps))

RECURSIVE SumBalances(_)
SumBalances(S) ==
    IF S = {} THEN 0
    ELSE LET a == CHOOSE x \in S : TRUE IN a.balance + SumBalances(S \ {a})

RECURSIVE SumBets(_)
SumBets(S) ==
    IF S = {} THEN 0
    ELSE LET m == CHOOSE x \in S : TRUE IN m.bet + SumBets(S \ {m})


(***************************************************************************)
(* Table operations of eosio::multi_index.                                 *)
(***************************************************************************)
\* accounts.emplace: storing a second row under a primary key already in
\* the table is refused by the database and aborts the transaction
accounts_can_emplace(table, row) ==
    \A r \in table : account_primary_key(r) # account_primary_key(row)

\* games.emplace, likewise
games_can_emplace(table, row) ==
    \A r \in table : game_primary_key(r) # game_primary_key(row)

\* The rows that an iterator obtained from byhost.find(host) visits when it
\* is advanced until byhost.end(): find gives the first row whose secondary
\* key equals host (end() if there is none), and ++ walks on through the whole
\* index in (secondary key, primary key) order.
byhost_from(table, host) ==
    IF \E r \in table : game_get_host(r) = host
    THEN {r \in table : game_get_host(r) >= host}
    ELSE {}

\* the same for an iterator obtained from byplayer.find(player)
byplayer_from(table, player) ==
    IF \E r \in table : match_get_player(r) = player
    THEN {r \in table : match_get_player(r) >= player}
    ELSE {}

\* the row of S that comes first in the byowner index
byowner_first(S) ==
    CHOOSE r \in S : \A q \in S :
        \/ account_get_owner(r) < account_get_owner(q)
        \/ /\ account_get_owner(r) = account_get_owner(q)
           /\ account_primary_key(r) <= account_primary_key(q)

\* the row of S that comes first in the byhost index
byhost_first(S) ==
    CHOOSE r \in S : \A q \in S :
        \/ game_get_host(r) < game_get_host(q)
        \/ /\ game_get_host(r) = game_get_host(q)
           /\ game_primary_key(r) <= game_primary_key(q)

\* the row of S that comes first in the byplayer index
byplayer_first(S) ==
    CHOOSE r \in S : \A q \in S :
        \/ match_get_player(r) < match_get_player(q)
        \/ /\ match_get_player(r) = match_get_player(q)
           /\ match_primary_key(r) <= match_primary_key(q)

(***************************************************************************)
(* dice::pay: an inline acornaccount::transfer from _self.  The token      *)
(* contract is outside this repository; its transfer either succeeds or    *)
(* aborts the whole transaction (tokenOk is the environment's choice), and *)
(* it always aborts for a non-positive quantity and for a recipient that   *)
(* is not an account, as name("") is.                                      *)
(***************************************************************************)
pay(db, to, quantity, tokenOk) ==
    IF ~db.ok THEN db
    ELSE IF quantity <= 0 \/ to = NULL_NAME \/ ~tokenOk
    THEN Abort(db, "transfer failed")
    ELSE [db EXCEPT !.pays = Append(@, [to |-> to, amount |-> quantity])]

(***************************************************************************)
(* dice::add_balance                                                       *)
(***************************************************************************)
add_balance(db, owner, value, enforce_min) ==
    IF ~db.ok THEN db
    ELSE LET found == {a \in db.acc : account_get_owner(a) = owner} IN
    IF found = {}
    THEN IF enforce_min /\ ~(value >= MIN_BALANCE)
         THEN Abort(db, "deposit does not meet minimum balance requirement")
         ELSE LET a == [owner |-> owner, balance |-> value] IN
              IF accounts_can_emplace(db.acc, a)
              THEN [db EXCEPT !.acc = @ \cup {a}]
              ELSE Abort(db, "could not insert object")
    ELSE LET it == byowner_first(found) IN
         [db EXCEPT !.acc = (@ \ {it}) \cup {[it EXCEPT !.balance = @ + value]}]

(***************************************************************************)
(* dice::sub_balance                                                       *)
(***************************************************************************)
CancelOffers_none(db, owner) == db

CancelOffers_gamesonly(db, owner) ==
    [db EXCEPT !.gms = @ \ byhost_from(db.gms, owner)]

\* the loop of lines 322-327: every game from the owner's first game to the
\* end of the byhost index is erased together with the match of its key
CancelOffers(db, owner) ==
    LET scanned == byhost_from(db.gms, owner)
        keys == {game_primary_key(g) : g \in scanned} IN
    IF \A k \in keys : \E m \in db.mts : match_primary_key(m) = k
    THEN [db EXCEPT !.gms = @ \ scanned,
                    !.mts = {m \in @ : match_primary_key(m) \notin keys}]
    ELSE Abort(db, "cannot pass end iterator to erase")

\* lines 331-340: the checks of a withdrawal that leaves a remainder
RemainderOk_unchecked(result, value, enforce_min) == "ok"

\* RemainderOk without the check of line 339
RemainderOk_nomintransfer(result, value, enforce_min) ==
    IF enforce_min /\ ~(result >= MIN_BALANCE)
    THEN "remainder must meet the minimum balance requirement"
    ELSE "ok"

RemainderOk(result, value, enforce_min) ==
    IF enforce_min /\ ~(result >= MIN_BALANCE)
    THEN "remainder must meet the minimum balance requirement"
    ELSE IF enforce_min /\ ~(value >= MIN_TRANSFER_SHELLS)
    THEN "withdrawals below the minimum transfer"
    ELSE "ok"

\* sub_balance with the emptied row kept at zero instead of erased
sub_balance_keepzero(db, owner, value, enforce_min) ==
    IF ~db.ok THEN db
    ELSE LET found == {a \in db.acc : account_get_owner(a) = owner} IN
    IF found = {} THEN Abort(db, "no account object found")
    ELSE LET it == byowner_first(found)
             result == it.balance - value IN
    IF ~(it.balance >= value) THEN Abort(db, "overdrawn balance")
    ELSE IF result # 0 /\ RemainderOk(result, value, enforce_min) # "ok"
    THEN Abort(db, RemainderOk(result, value, enforce_min))
    ELSE [db EXCEPT !.acc = (@ \ {it}) \cup {[it EXCEPT !.balance = result]}]

sub_balance(db, owner, value, enforce_min) ==
    IF ~db.ok THEN db
    ELSE LET found == {a \in db.acc : account_get_owner(a) = owner} IN
    IF found = {} THEN Abort(db, "no account object found")
    ELSE LET it == byowner_first(found)
             result == it.balance - value IN
    IF ~(it.balance >= value) THEN Abort(db, "overdrawn balance")
    ELSE IF result = 0
    THEN CancelOffers([db EXCEPT !.acc = @ \ {it}], owner)
    ELSE IF RemainderOk(result, value, enforce_min) # "ok"
    THEN Abort(db, RemainderOk(result, value, enforce_min))
    ELSE [db EXCEPT !.acc = (@ \ {it}) \cup {[it EXCEPT !.balance = result]}]

(***************************************************************************)
(* dice::do_bet                                                            *)
(***************************************************************************)
\* At most 1% of a host's current bankroll is at risk in a bet (line 214)
CoversBet_noratio(balance, quantity) == balance >= quantity

CoversBet(balance, quantity) == (balance \div MAX_BET_TO_BANKROLL_RATIO) >= quantity

\* FillMatch without the erase of line 241: the game offer stays open
FillMatch_keepoffer(db, acct, player, quantity, guess) ==
    LET eg == byhost_first({g \in db.gms : game_get_host(g) = acct.owner})
        d1 == sub_balance(db, acct.owner, quantity, FALSE)
        found == {m \in d1.mts : match_primary_key(m) = get_hash_prefix(eg.commitment)} IN
    IF ~d1.ok THEN d1
    ELSE IF found = {} THEN Abort(d1, "cannot pass end iterator to modify")
    ELSE LET mit == CHOOSE m \in found : TRUE
             filled == [mit EXCEPT !.guess = guess,
                                   !.player = player,
                                   !.bet = quantity,
                                   !.deadline = now + GAME_TIMEOUT_SECS] IN
         [d1 EXCEPT !.mts = (@ \ {mit}) \cup {filled}]

\* lines 226-244: fund the match from the host's balance, fill in the dummy
\* match entry of the host's first game and erase that game
FillMatch(db, acct, player, quantity, guess) ==
    LET eg == byhost_first({g \in db.gms : game_get_host(g) = acct.owner})
        d1 == sub_balance(db, acct.owner, quantity, FALSE)
        found == {m \in d1.mts : match_primary_key(m) = get_hash_prefix(eg.commitment)} IN
    IF ~d1.ok THEN d1
    ELSE IF found = {} THEN Abort(d1, "cannot pass end iterator to modify")
    ELSE LET mit == CHOOSE m \in found : TRUE
             filled == [mit EXCEPT !.guess = guess,
                                   !.player = player,
                                   !.bet = quantity,
                                   !.deadline = now + GAME_TIMEOUT_SECS] IN
         IF eg \notin d1.gms THEN Abort(d1, "cannot pass end iterator to erase")
         ELSE [d1 EXCEPT !.mts = (@ \ {mit}) \cup {filled},
                         !.gms = @ \ {eg}]

\* NoMatch without the division of line 263
NoMatch_undivided(db, max_bankroll) ==
    IF max_bankroll < MIN_TRANSFER_SHELLS
    THEN Abort(db, "no bets available")
    ELSE [Abort(db, "the current maximum bet is") EXCEPT !.info = max_bankroll]

\* lines 263-270: the scan found no game; the transfer is refused
NoMatch(db, max_bankroll) ==
    LET max_bet == max_bankroll \div MAX_BET_TO_BANKROLL_RATIO IN
    IF max_bet < MIN_TRANSFER_SHELLS
    THEN Abort(db, "no bets available")
    ELSE [Abort(db, "the current maximum bet is") EXCEPT !.info = max_bet]

\* the while loop of lines 209-260 over the accounts still to visit, in
\* primary-key order
RECURSIVE ScanAccounts(_, _, _, _, _, _)
ScanAccounts(db, rest, max_bankroll, player, quantity, guess) ==
    IF rest = {} THEN NoMatch(db, max_bankroll)
    ELSE LET acct == CHOOSE a \in rest :
                         \A b \in rest : account_primary_key(a) <= account_primary_key(b)
             has_game == \E g \in db.gms : game_get_host(g) = acct.owner IN
    IF CoversBet(acct.balance, quantity)
    THEN IF has_game
         THEN FillMatch(db, acct, player, quantity, guess)
         ELSE ScanAccounts(db, rest \ {acct}, max_bankroll, player, quantity, guess)
    ELSE IF acct.balance > max_bankroll /\ has_game
    THEN ScanAccounts(db, rest \ {acct}, acct.balance, player, quantity, guess)
    ELSE ScanAccounts(db, rest \ {acct}, max_bankroll, player, quantity, guess)

do_bet(db, player, quantity, guess) ==
    IF ~db.ok THEN db
    ELSE ScanAccounts(db, db.acc, ZERO_ACORNS, player, quantity, guess)

(***************************************************************************)
(* The actions of the contract, each a whole transaction on Begin.         *)
(***************************************************************************)
\* dice::withdraw; require_auth(to): the caller is `to`.  Every quantity of
\* the model is a valid asset in ACORN_SYMBOL.
withdraw(to, quantity, tokenOk) ==
    IF ~(quantity > 0) THEN Abort(Begin, "must withdraw positive quantity")
    ELSE pay(sub_balance(Begin, to, quantity, TRUE), to, quantity, tokenOk)

\* commit without the check of line 33
commit_nobankroll(host, commitment) ==
    LET hash_prefix == get_hash_prefix(commitment)
        g == [commitment |-> commitment, host |-> host]
        m == [commitment |-> commitment, host |-> host, guess |-> NULL_GUESS,
              player |-> NULL_NAME, bet |-> ZERO_ACORNS, deadline |-> now] IN
    IF ~(hash_prefix # ZERO_SOURCE)
    THEN Abort(Begin, "A zeroed-out checksum256 is not an acceptable commitment source")
    ELSE IF ~(\A x \in matches : match_primary_key(x) # hash_prefix)
    THEN Abort(Begin, "commitment already exists or was generated from a bad seed")
    ELSE IF ~games_can_emplace(games, g)
    THEN Abort(Begin, "could not insert object")
    ELSE [Begin EXCEPT !.gms = @ \cup {g}, !.mts = @ \cup {m}]

\* dice::commit; require_auth(host): the caller is `host`
commit(host, commitment) ==
    LET hash_prefix == get_hash_prefix(commitment)
        g == [commitment |-> commitment, host |-> host]
        m == [commitment |-> commitment, host |-> host, guess |-> NULL_GUESS,
              player |-> NULL_NAME, bet |-> ZERO_ACORNS, deadline |-> now] IN
    IF ~(\E a \in accounts : account_get_owner(a) = host)
    THEN Abort(Begin, "cannot commit with a bankroll of zero")
    ELSE IF ~(hash_prefix # ZERO_SOURCE)
    THEN Abort(Begin, "A zeroed-out checksum256 is not an acceptable commitment source")
    ELSE IF ~(\A x \in matches : match_primary_key(x) # hash_prefix)
    THEN Abort(Begin, "commitment already exists or was generated from a bad seed")
    ELSE IF ~games_can_emplace(games, g)
    THEN Abort(Begin, "could not insert object")
    ELSE [Begin EXCEPT !.gms = @ \cup {g}, !.mts = @ \cup {m}]

\* cancelcommit without lines 85-87: the game entry is left behind
cancelcommit_keepgame(host, commitment) ==
    LET mfound == {m \in matches : match_primary_key(m) = get_hash_prefix(commitment)} IN
    IF mfound = {} THEN Abort(Begin, "commitment not found")
    ELSE LET em == CHOOSE m \in mfound : TRUE IN
    IF ~(em.guess = NULL_GUESS)
    THEN Abort(Begin, "cannot cancel commitment: already in play")
    ELSE [Begin EXCEPT !.mts = @ \ {em}]

\* dice::cancelcommit; require_auth(host): the caller is `host`
cancelcommit(host, commitment) ==
    LET hash_prefix == get_hash_prefix(commitment)
        mfound == {m \in matches : match_primary_key(m) = hash_prefix}
        gfound == {g \in games : game_primary_key(g) = hash_prefix} IN
    IF mfound = {} THEN Abort(Begin, "commitment not found")
    ELSE LET em == CHOOSE m \in mfound : TRUE IN
    IF ~(em.guess = NULL_GUESS)
    THEN Abort(Begin, "cannot cancel commitment: already in play")
    ELSE IF gfound = {} THEN Abort(Begin, "cannot pass end iterator to erase")
    ELSE [Begin EXCEPT !.mts = @ \ {em}, !.gms = @ \ gfound]

\* lines 108-124: who is paid what
win_quantity_nofee(bet) == bet * 2

win_quantity(bet) == (bet * 2) - ACORN_SHELL

player_payout_swapped(em, source) ==
    IF result_bit(source) # em.guess THEN win_quantity(em.bet) ELSE ACORN_SHELL

player_payout(em, source) ==
    IF result_bit(source) = em.guess THEN win_quantity(em.bet) ELSE ACORN_SHELL

\* host_payout without the shell taken off the winnings
host_payout_whole(em, source) ==
    IF result_bit(source) = em.guess THEN ACORN_SHELL ELSE em.bet * 2

host_payout(em, source) ==
    IF result_bit(source) = em.guess THEN ACORN_SHELL ELSE win_quantity(em.bet)

\* reveal_from without the erase of line 144
reveal_from_keepmatch(db, commitment, source, tokenOk) ==
    LET hash_prefix == get_hash_prefix(commitment)
        mfound == {m \in db.mts : match_primary_key(m) = hash_prefix}
        gfound == {g \in db.gms : game_primary_key(g) = hash_prefix} IN
    IF sha256(source) # commitment THEN Abort(db, "hash mismatch")
    ELSE IF mfound = {} THEN Abort(db, "commitment not found")
    ELSE LET em == CHOOSE m \in mfound : TRUE IN
         IF em.guess # NULL_GUESS
         THEN add_balance(pay(db, em.player, player_payout(em, source), tokenOk),
                          em.host, host_payout(em, source), FALSE)
         ELSE IF gfound = {} THEN Abort(db, "cannot pass end iterator to erase")
         ELSE [db EXCEPT !.gms = @ \ gfound]

\* the body of dice::reveal, run on the tables of db
reveal_from(db, commitment, source, tokenOk) ==
    LET hash_prefix == get_hash_prefix(commitment)
        mfound == {m \in db.mts : match_primary_key(m) = hash_prefix}
        gfound == {g \in db.gms : game_primary_key(g) = hash_prefix} IN
    IF sha256(source) # commitment THEN Abort(db, "hash mismatch")
    ELSE IF mfound = {} THEN Abort(db, "commitment not found")
    ELSE LET em == CHOOSE m \in mfound : TRUE
             settled ==
                 IF em.guess # NULL_GUESS
                 THEN add_balance(pay(db, em.player, player_payout(em, source), tokenOk),
                                  em.host, host_payout(em, source), FALSE)
                 ELSE IF gfound = {} THEN Abort(db, "cannot pass end iterator to erase")
                 ELSE [db EXCEPT !.gms = @ \ gfound] IN
         IF ~settled.ok THEN settled
         ELSE [settled EXCEPT !.mts = @ \ {em}]

\* dice::reveal
reveal(commitment, source, tokenOk) == reveal_from(Begin, commitment, source, tokenOk)

\* if match has timed out (line 161)
TimedOut_inclusive(em) == now >= em.deadline

TimedOut(em) == now > em.deadline

\* the loop of dice::collect without the erase of line 167
RECURSIVE CollectLoop_noerase(_, _, _, _)
CollectLoop_noerase(db, rest, player, tokenOk) ==
    IF rest = {} \/ ~db.ok THEN db
    ELSE LET em == byplayer_first(rest) IN
         IF TimedOut(em)
         THEN CollectLoop_noerase(pay(db, player, em.bet * 2, tokenOk),
                                  rest \ {em}, player, tokenOk)
         ELSE CollectLoop_noerase(db, rest \ {em}, player, tokenOk)

\* the loop of dice::collect leaving at the first row that has not timed out
RECURSIVE CollectLoop_stopearly(_, _, _, _)
CollectLoop_stopearly(db, rest, player, tokenOk) ==
    IF rest = {} \/ ~db.ok THEN db
    ELSE LET em == byplayer_first(rest) IN
         IF TimedOut(em)
         THEN CollectLoop_stopearly([pay(db, player, em.bet * 2, tokenOk) EXCEPT !.mts = @ \ {em}],
                                    rest \ {em}, player, tokenOk)
         ELSE db

\* the loop of dice::collect over the rows still to visit
RECURSIVE CollectLoop(_, _, _, _)
CollectLoop(db, rest, player, tokenOk) ==
    IF rest = {} \/ ~db.ok THEN db
    ELSE LET em == byplayer_first(rest) IN
         IF TimedOut(em)
         THEN CollectLoop([pay(db, player, em.bet * 2, tokenOk) EXCEPT !.mts = @ \ {em}],
                          rest \ {em}, player, tokenOk)
         ELSE CollectLoop(db, rest \ {em}, player, tokenOk)

\* dice::collect
collect(player, tokenOk) ==
    CollectLoop(Begin, byplayer_from(matches, player), player, tokenOk)

\* memo dispatch of dice::acorn_transfer (lines 191-199)
IsOddMemo(memo) == memo \in {"odd", "Odd", "ODD", "1"}

IsEvenMemo(memo) == memo \in {"even", "Even", "EVEN", "0"}

IsDepositMemo(memo) == memo \in {"deposit", "Deposit", "DEPOSIT"}

\* dice::acorn_transfer.  Every quantity of the model is a valid asset in
\* ACORN_SYMBOL and every memo of Memos is shorter than 256 bytes.
acorn_transfer(from, quantity, memo) ==
    IF from = SELF THEN Begin
    ELSE IF ~(quantity >= MIN_TRANSFER_SHELLS) THEN Abort(Begin, "minimum quantity not met")
    ELSE IF IsOddMemo(memo) THEN do_bet(Begin, from, quantity, 1)
    ELSE IF IsEvenMemo(memo) THEN do_bet(Begin, from, quantity, 0)
    ELSE IF IsDepositMemo(memo) THEN add_balance(Begin, from, quantity, TRUE)
    ELSE Abort(Begin, "memo must be: 'odd', 'even' or 'deposit'.")

(***************************************************************************)
(* The state machine.                                                      *)
(***************************************************************************)
Init ==
    /\ accounts = {}
    /\ games = {}
    /\ matches = {}
    /\ now = 0
    /\ deposited = 0
    /\ wagered = 0
    /\ paid = 0
    /\ nTransfers = 0

TypeOK ==
    /\ accounts \subseteq account
    /\ games \subseteq game
    /\ matches \subseteq match
    /\ now \in Nat
    /\ deposited \in Nat /\ wagered \in Nat /\ paid \in Nat
    /\ nTransfers \in 0..MaxTransfers

\* Commit the transaction res.  An aborted transaction is rolled back whole
\* and leaves no trace in the state: it is a stuttering step.
Finish(res) ==
    /\ res.ok
    /\ accounts' = res.acc
    /\ games' = res.gms
    /\ matches' = res.mts
    /\ paid' = paid + SumPays(res.pays)

Withdraw ==
    \E to \in Names, tokenOk \in BOOLEAN,
       quantity \in WithdrawAmounts \cup {a.balance : a \in accounts} :
        /\ Finish(withdraw(to, quantity, tokenOk))
        /\ UNCHANGED <<now, deposited, wagered, nTransfers>>

Commit ==
    \E host \in Names, commitment \in Commitments :
        /\ Finish(commit(host, commitment))
        /\ UNCHANGED <<now, deposited, wagered, nTransfers>>

CancelCommit ==
    \E host \in Names, commitment \in Commitments :
        /\ Finish(cancelcommit(host, commitment))
        /\ UNCHANGED <<now, deposited, wagered, nTransfers>>

Reveal ==
    \E commitment \in Commitments, source \in Sources, tokenOk \in BOOLEAN :
        /\ Finish(reveal(commitment, source, tokenOk))
        /\ UNCHANGED <<now, deposited, wagered, nTransfers>>

Collect ==
    \E player \in AnyName, tokenOk \in BOOLEAN :
        /\ Finish(collect(player, tokenOk))
        /\ UNCHANGED <<now, deposited, wagered, nTransfers>>

\* the acornaccount::transfer notification
AcornTransfer ==
    \E from \in Names \cup {SELF}, quantity \in TransferAmounts, memo \in Memos :
        LET res == acorn_transfer(from, quantity, memo)
            isDeposit == res.ok /\ from # SELF /\ IsDepositMemo(memo)
            isBet == res.ok /\ from # SELF /\ ~IsDepositMemo(memo) IN
        /\ (isDeposit \/ isBet) => nTransfers < MaxTransfers
        /\ Finish(res)
        /\ deposited' = IF isDeposit THEN deposited + quantity ELSE deposited
        /\ wagered' = IF isBet THEN wagered + quantity ELSE wagered
        /\ nTransfers' = IF isDeposit \/ isBet THEN nTransfers + 1 ELSE nTransfers
        /\ UNCHANGED now

\* time passes between transactions
Tick ==
    /\ now + TickSecs <= MaxTime
    /\ now' = now + TickSecs
    /\ UNCHANGED <<accounts, games, matches, deposited, wagered, paid, nTransfers>>

Next ==
    \/ Withdraw
    \/ Commit
    \/ CancelCommit
    \/ Reveal
    \/ Collect
    \/ AcornTransfer
    \/ Tick

Spec == Init /\ [][Next]_vars

\* a collect call naming player that finds a match past its deadline and
\* whose inline transfers go through
CollectBy(player) ==
    /\ \E m \in matches : TimedOut(m)
    /\ Finish(collect(player, TRUE))
    /\ UNCHANGED <<now, deposited, wagered, nTransfers>>

\* Time advances, and a player whose collect call stays possible makes it.
LiveSpec ==
    /\ Spec
    /\ WF_vars(Tick)
    /\ \A player \in Names : WF_vars(CollectBy(player))

(***************************************************************************)
(* Properties.                                                             *)
(***************************************************************************)
IsActive(m) == m.guess # NULL_GUESS

IsPlaceholder(m) == m.guess = NULL_GUESS

BetsWithKey(key) == {m \in matches : match_primary_key(m) = key}

OffersWithKey(key) == {g \in games : game_primary_key(g) = key}

BalanceOf(acc, owner) ==
    IF \E a \in acc : a.owner = owner
    THEN (CHOOSE a \in acc : a.owner = owner).balance
    ELSE 0

\* C1 as stated: the ledger balances plus everything paid out by pay() equal
\* the sum of all deposits.  It ignores the wagers the contract receives and
\* the stake an active Bet holds outside the ledger.
C1_LedgerPlusPaidIsDeposits == SumBalances(accounts) + paid = deposited

\* C1 amended: the ledger balances, plus everything paid out by pay(), plus
\* twice the wager of every active Bet equal the sum of all accepted deposits
\* and all accepted wagers.
C1_Conservation ==
    SumBalances(accounts) + paid + 2 * SumBets(matches) = deposited + wagered

\* a Bet was matched, a reveal settled one Bet and another Bet is still active
C1_Witness ==
    /\ wagered = 2 * 5000
    /\ Cardinality({m \in matches : IsActive(m)}) = 1
    /\ paid \in {ACORN_SHELL, 2 * 5000 - ACORN_SHELL}

\* C2: reveal of an active Bet with wager w takes the lowest bit of the last
\* byte of source as the outcome; when it equals the guess the player is paid
\* 2w - 1 and the host's ledger gains 1, otherwise the host's ledger gains
\* 2w - 1 and the player is paid 1; the two amounts add up to 2w and the Bet
\* is deleted.
C2_RevealSettlement ==
    \A commitment \in Commitments, source \in Sources :
        \A em \in BetsWithKey(get_hash_prefix(commitment)) :
            LET res == reveal(commitment, source, TRUE)
                w == em.bet
                won == (source % 2) = em.guess
                toPlayer == IF won THEN 2 * w - 1 ELSE 1
                toHost == IF won THEN 1 ELSE 2 * w - 1 IN
            (IsActive(em) /\ res.ok) =>
                /\ res.pays = <<[to |-> em.player, amount |-> toPlayer]>>
                /\ BalanceOf(res.acc, em.host) = BalanceOf(accounts, em.host) + toHost
                /\ SumBalances(res.acc) = SumBalances(accounts) + toHost
                /\ toPlayer + toHost = 2 * w
                /\ res.mts = matches \ {em}
                /\ res.gms = games

\* an active Bet whose commitment a known source opens, on either side of the
\* guess, and whose reveal goes through
C2_Witness ==
    \E m1 \in matches, m2 \in matches, s1 \in Sources, s2 \in Sources :
        /\ IsActive(m1) /\ IsActive(m2)
        /\ reveal(m1.commitment, s1, TRUE).ok /\ s1 % 2 = m1.guess
        /\ reveal(m2.commitment, s2, TRUE).ok /\ s2 % 2 # m2.guess

\* C3: the keys of the Offers are exactly the keys of the Bets whose guess
\* is unset, and an Offer and its placeholder Bet carry the same commitment
\* and host.
C3_OfferBetDuality ==
    /\ {game_primary_key(g) : g \in games}
           = {match_primary_key(m) : m \in {x \in matches : IsPlaceholder(x)}}
    /\ \A g \in games : \E m \in matches :
           IsPlaceholder(m) /\ m.commitment = g.commitment /\ m.host = g.host

\* an Offer with its placeholder next to an active Bet, after a withdrawal
C3_Witness ==
    /\ games # {}
    /\ \E m \in matches : IsActive(m)
    /\ paid > 0

\* C4: a wager of size amount is matched only to a host whose balance just
\* before the match is at least amount * 100.
C4_RiskRatio ==
    \A player \in Names, amount \in TransferAmounts, guess \in {0, 1} :
        LET res == do_bet(Begin, player, amount, guess) IN
        res.ok =>
            \E m \in res.mts \ matches :
                /\ m.player = player /\ m.bet = amount
                /\ BalanceOf(accounts, m.host) >= amount * 100

\* a wager of 5000 was matched to a host whose balance was exactly
\* 5000 * 100: the only deposit was 500000 and the host now holds 495000
C4_Witness ==
    /\ deposited = 5000 * 100
    /\ paid = 0
    /\ \E a \in accounts, m \in matches :
           IsActive(m) /\ m.bet = 5000 /\ m.host = a.owner /\ a.balance = 495000

\* C5 as stated: every LedgerAccount record has balance >= MIN_BALANCE.
C5_MinBalanceAlways == \A a \in accounts : a.balance >= MIN_BALANCE

\* C5 amended: a LedgerAccount record created by a deposit, and a record that
\* a successful withdraw leaves in place, has balance >= MIN_BALANCE, and a
\* withdraw that does not leave that much leaves no record at all.
C5_MinBalanceAtDepositAndWithdraw ==
    /\ \A owner \in Names, amount \in TransferAmounts, memo \in Memos :
           LET res == acorn_transfer(owner, amount, memo) IN
           (res.ok /\ res.acc # accounts /\ ~\E a \in accounts : a.owner = owner) =>
               \A a \in res.acc : a.owner = owner => a.balance >= MIN_BALANCE
    /\ \A to \in Names :
           \A amount \in WithdrawAmounts \cup {a.balance : a \in accounts} :
               LET res == withdraw(to, amount, TRUE) IN
               res.ok =>
                   /\ BalanceOf(res.acc, to) = BalanceOf(accounts, to) - amount
                   /\ \A a \in res.acc : a.owner = to => a.balance >= MIN_BALANCE

\* two deposits made a record of 1000000 and a withdrawal of 400000 has left
\* it at 600000
C5_Witness ==
    /\ deposited = 1000000
    /\ paid = 400000
    /\ wagered = 0
    /\ \E a \in accounts : a.balance = 600000

\* C6: every LedgerAccount record has a balance above zero; an account that
\* reaches zero is deleted.
C6_PositiveBalances == \A a \in accounts : a.balance > 0

\* the whole ledger was withdrawn: money was deposited, all of it was paid
\* out again, and no record is left
C6_Witness ==
    /\ deposited > 0
    /\ paid = deposited
    /\ wagered = 0
    /\ accounts = {}

\* C7: collect(player) deletes no Bet whose recorded player is not the one
\* named, and pays for none.
C7_CollectOnlyOwnBets ==
    \A player \in AnyName :
        LET res == collect(player, TRUE) IN
        res.ok =>
            /\ \A m \in matches \ res.mts : m.player = player
            /\ SumPays(res.pays) = 2 * SumBets({m \in matches \ res.mts : m.player = player})

\* the i-th of the Bets of S by key
RECURSIVE ByKey(_)
ByKey(S) ==
    IF S = {} THEN <<>>
    ELSE LET m == CHOOSE x \in S : \A y \in S : x.commitment[1] <= y.commitment[1] IN
         <<m>> \o ByKey(S \ {m})

\* C8: collect(player) at time now pays the player 2 * wager, no fee taken
\* off, for each of the player's Bets with now > deadline and deletes it; it
\* leaves every Bet of the player with now <= deadline as it is, and changes
\* no ledger balance and no Offer.
C8_TimeoutCollection ==
    \A player \in Names :
        LET res == collect(player, TRUE)
            due == ByKey({m \in matches : m.player = player /\ now > m.deadline}) IN
        /\ res.ok
        /\ Len(res.pays) >= Len(due)
        /\ \A i \in 1..Len(due) :
               /\ res.pays[i] = [to |-> player, amount |-> 2 * due[i].bet]
               /\ due[i] \notin res.mts
        /\ \A m \in matches : (m.player = player /\ now <= m.deadline) => m \in res.mts
        /\ res.mts \subseteq matches
        /\ res.acc = accounts
        /\ res.gms = games

\* the clock stands exactly at the deadline of one Bet of a player (matched
\* 300 seconds ago) and past the deadline of another Bet of the same player
C8_Witness ==
    \E m1 \in matches, m2 \in matches :
        /\ IsActive(m1) /\ IsActive(m2)
        /\ m1.player = m2.player
        /\ now = m1.deadline
        /\ now > m2.deadline

\* C9: cancelCommit fails when no Bet has the commitment's key and when that
\* Bet is active; on a placeholder it succeeds, deletes the Bet and its
\* Offer, pays nothing and leaves the ledger and every other record alone.
C9_CancelCommit ==
    \A host \in Names, commitment \in Commitments :
        LET res == cancelcommit(host, commitment)
            key == get_hash_prefix(commitment) IN
        /\ BetsWithKey(key) = {} => ~res.ok
        /\ (\E m \in BetsWithKey(key) : IsActive(m)) => ~res.ok
        /\ (\E m \in BetsWithKey(key) : IsPlaceholder(m)) => res.ok
        /\ res.ok =>
               /\ res.mts = matches \ BetsWithKey(key)
               /\ res.gms = games \ OffersWithKey(key)
               /\ OffersWithKey(key) # {}
               /\ res.pays = <<>>
               /\ res.acc = accounts

\* an active Bet, a placeholder Bet and a key without a Bet in one state
C9_Witness ==
    /\ \E m \in matches : IsActive(m)
    /\ \E m \in matches : IsPlaceholder(m)
    /\ \E commitment \in Commitments : BetsWithKey(get_hash_prefix(commitment)) = {}

\* C10: a withdraw of the owner's whole balance deletes the owner's
\* LedgerAccount, every Offer of the owner and the placeholder Bet of each;
\* it leaves every active Bet, also those the owner hosts, and every Offer and
\* Bet of another host as they are.
C10_WithdrawCascade ==
    \A a \in accounts :
        LET owner == a.owner
            res == withdraw(owner, a.balance, TRUE) IN
        /\ res.ok
        /\ res.pays = <<[to |-> owner, amount |-> a.balance]>>
        /\ ~\E b \in res.acc : b.owner = owner
        /\ res.acc = accounts \ {a}
        /\ res.gms = {g \in games : g.host # owner}
        /\ res.mts = {m \in matches : IsActive(m) \/ m.host # owner}

\* the owner of an account holds an open Offer next to an active Bet of
\* another host, and can withdraw the whole balance
C10_Witness ==
    \E a \in accounts :
        /\ \E g \in games : g.host = a.owner
        /\ \E m \in matches : IsActive(m) /\ m.host # a.owner
        /\ withdraw(a.owner, a.balance, TRUE).ok

\* C11: a deposit of at least MIN_BALANCE by an owner without a LedgerAccount
\* creates a record for that owner with balance = amount, whichever other
\* owners hold records; a deposit by an owner with a record adds the amount to
\* that record only.
C11_PerOwnerAccounts ==
    \A owner \in Names, amount \in TransferAmounts :
        LET res == acorn_transfer(owner, amount, "deposit")
            mine == {a \in accounts : a.owner = owner} IN
        /\ (mine = {} /\ amount >= MIN_BALANCE) =>
               /\ res.ok
               /\ res.acc = accounts \cup {[owner |-> owner, balance |-> amount]}
        /\ (mine # {} /\ amount >= MIN_TRANSFER_SHELLS) =>
               /\ res.ok
               /\ res.acc = (accounts \ mine)
                                \cup {[a EXCEPT !.balance = @ + amount] : a \in mine}

\* C12: commit succeeds only if the host holds a LedgerAccount, the key of the
\* commitment is not that of the all-zero source and no Bet has the key; it
\* then inserts one Offer and one placeholder Bet (guess unset, player unset,
\* wager 0) under the key and changes nothing else.
C12_Commit ==
    \A host \in Names, commitment \in Commitments :
        LET res == commit(host, commitment)
            key == get_hash_prefix(commitment)
            allowed == /\ \E a \in accounts : a.owner = host
                       /\ key # ZERO_SOURCE
                       /\ BetsWithKey(key) = {} IN
        /\ res.ok => allowed
        /\ allowed => res.ok
        /\ res.ok =>
               /\ OffersWithKey(key) = {}
               /\ res.gms = games \cup {[commitment |-> commitment, host |-> host]}
               /\ \E m \in res.mts \ matches :
                      /\ res.mts = matches \cup {m}
                      /\ m.commitment = commitment /\ m.host = host
                      /\ m.guess = NULL_GUESS /\ m.player = NULL_NAME /\ m.bet = 0
               /\ res.acc = accounts
               /\ res.pays = <<>>

\* a commit has left an Offer with its placeholder under one key, the other
\* key is taken by an active Bet, and one name holds no account
C12_Witness ==
    /\ \E g \in games, m \in matches :
           IsPlaceholder(m) /\ m.commitment = g.commitment
    /\ \E commitment \in Commitments :
           \E m \in BetsWithKey(get_hash_prefix(commitment)) : IsActive(m)
    /\ \E host \in Names : ~\E a \in accounts : a.owner = host

\* C13: withdraw fails if the owner has no account or the amount exceeds the
\* balance; when a positive balance would remain it fails unless the
\* remainder is at least MIN_BALANCE and the amount at least MIN_TRANSFER; a
\* withdrawal of exactly the whole balance succeeds whatever its size; on
\* success the owner is paid exactly the amount and the balance drops by it.
C13_WithdrawPolicy ==
    \A to \in Names :
        \A amount \in WithdrawAmounts \cup {a.balance : a \in accounts} :
            LET res == withdraw(to, amount, TRUE)
                has == \E a \in accounts : a.owner = to
                bal == BalanceOf(accounts, to)
                remaining == bal - amount IN
            /\ ~has => ~res.ok
            /\ amount > bal => ~res.ok
            /\ (has /\ remaining > 0
                    /\ ~(remaining >= MIN_BALANCE /\ amount >= MIN_TRANSFER_SHELLS)) => ~res.ok
            /\ (has /\ amount = bal) => res.ok
            /\ res.ok =>
                   /\ res.pays = <<[to |-> to, amount |-> amount]>>
                   /\ BalanceOf(res.acc, to) = bal - amount
                   /\ {a \in res.acc : a.owner # to} = {a \in accounts : a.owner # to}

\* an account that a matched wager has taken below MIN_BALANCE: it can be
\* withdrawn whole, and a withdrawal of 400000 would leave a positive
\* remainder below MIN_BALANCE
C13_Witness ==
    \E a \in accounts :
        /\ a.balance < MIN_BALANCE
        /\ withdraw(a.owner, a.balance, TRUE).ok
        /\ ~withdraw(a.owner, 400000, TRUE).ok

\* C14: a collect(player) called right after a successful collect(player), at
\* the same time and with nothing in between, pays nothing and leaves the
\* ledger, the Offers and the Bets as the first call left them.
C14_CollectIdempotent ==
    \A player \in AnyName :
        LET first == collect(player, TRUE)
            again == CollectLoop([first EXCEPT !.pays = <<>>],
                                 byplayer_from(first.mts, player), player, TRUE) IN
        first.ok =>
            /\ again.ok
            /\ again.pays = <<>>
            /\ again.acc = first.acc
            /\ again.gms = first.gms
            /\ again.mts = first.mts

\* a player holds a Bet past its deadline and a Bet not yet past it: the
\* first collect pays for one and leaves the other
C14_Witness ==
    \E player \in Names :
        LET first == collect(player, TRUE) IN
        /\ first.ok
        /\ first.pays # <<>>
        /\ \E m \in first.mts : m.player = player

\* letter-case variants of the three notes, the two digits and two other notes
C15_Notes ==
    {"deposit", "Deposit", "DEPOSIT", "dEPOSIT", "odd", "Odd", "ODD", "oDd",
     "even", "Even", "EVEN", "eVEN", "1", "0", "", "bet"}

\* the note in lower case
C15_Lower(note) ==
    IF note \in {"deposit", "Deposit", "DEPOSIT", "dEPOSIT"} THEN "deposit"
    ELSE IF note \in {"odd", "Odd", "ODD", "oDd"} THEN "odd"
    ELSE IF note \in {"even", "Even", "EVEN", "eVEN"} THEN "even"
    ELSE note

\* C15: the note of an incoming transfer is read without regard to letter
\* case: every case variant of "deposit" is a ledger credit, every case
\* variant of "odd", and "1", a wager on odd, every case variant of "even",
\* and "0", a wager on even; a transfer with any other note is rejected.
C15_NoteRouting ==
    \A from \in Names, quantity \in TransferAmounts, note \in C15_Notes :
        LET res == acorn_transfer(from, quantity, note)
            routed ==
                IF C15_Lower(note) = "deposit" THEN add_balance(Begin, from, quantity, TRUE)
                ELSE IF C15_Lower(note) \in {"odd", "1"} THEN do_bet(Begin, from, quantity, 1)
                ELSE IF C15_Lower(note) \in {"even", "0"} THEN do_bet(Begin, from, quantity, 0)
                ELSE Abort(Begin, "rejected") IN
        quantity >= MIN_TRANSFER_SHELLS =>
            /\ res.ok = routed.ok
            /\ res.ok => /\ res.acc = routed.acc
                          /\ res.gms = routed.gms
                          /\ res.mts = routed.mts

\* the accounts that clear the risk ratio for amount and own an open Offer
Qualified(amount) ==
    {a \in accounts : /\ a.balance \div MAX_BET_TO_BANKROLL_RATIO >= amount
                       /\ \E g \in games : g.host = a.owner}

\* the wagers an incoming transfer can carry
WagerAmounts == {q \in TransferAmounts : q >= MIN_TRANSFER_SHELLS}

\* C16: a successful placeWager(player, amount, guess) at time now takes the
\* first account in scan order that clears the risk ratio and owns an open
\* Offer, debits exactly amount from it, overwrites the placeholder Bet of
\* one of its Offers with {guess, player, amount, now + TIMEOUT} and deletes
\* that Offer; the host's account still exists and every other account,
\* Offer and Bet is unchanged.
C16_MatchEffect ==
    \A player \in Names, amount \in WagerAmounts, guess \in {0, 1} :
        LET res == do_bet(Begin, player, amount, guess)
            candidates == Qualified(amount) IN
        res.ok =>
            /\ candidates # {}
            /\ \E h \in candidates, g \in games, ph \in matches :
                   /\ \A b \in candidates : account_primary_key(h) <= account_primary_key(b)
                   /\ g.host = h.owner
                   /\ ph.commitment = g.commitment /\ IsPlaceholder(ph)
                   /\ res.acc = (accounts \ {h})
                                    \cup {[owner |-> h.owner, balance |-> h.balance - amount]}
                   /\ h.balance - amount > 0
                   /\ res.gms = games \ {g}
                   /\ res.mts = (matches \ {ph})
                                    \cup {[commitment |-> g.commitment, host |-> ph.host,
                                           guess |-> guess, player |-> player,
                                           bet |-> amount,
                                           deadline |-> now + GAME_TIMEOUT_SECS]}
            /\ res.pays = <<>>

\* a wager has just been matched (its deadline is now + TIMEOUT) to a host
\* that still holds its account and another open Offer
C16_Witness ==
    \E m \in matches, g \in games, a \in accounts :
        /\ IsActive(m) /\ m.deadline = now + GAME_TIMEOUT_SECS
        /\ g.host = m.host /\ a.owner = m.host

\* the largest balance among the accounts that own an open Offer, 0 if none
MaxBankrollWithOffer ==
    LET S == {a.balance : a \in {x \in accounts : \E g \in games : g.host = x.owner}} IN
    IF S = {} THEN 0 ELSE CHOOSE b \in S : \A c \in S : c <= b

\* C17: placeWager fails exactly when no account both clears the risk ratio
\* for amount and owns an open Offer; it then reports M / RISK_RATIO, M being
\* the largest balance among the accounts that own an open Offer (0 if there
\* is none), or "no bets available" when M / RISK_RATIO < MIN_TRANSFER.
C17_FailedMatch ==
    \A player \in Names, amount \in WagerAmounts, guess \in {0, 1} :
        LET res == do_bet(Begin, player, amount, guess)
            maxBet == MaxBankrollWithOffer \div MAX_BET_TO_BANKROLL_RATIO IN
        /\ ~res.ok <=> Qualified(amount) = {}
        /\ ~res.ok =>
               IF maxBet < MIN_TRANSFER_SHELLS
               THEN res.err = "no bets available"
               ELSE res.err = "the current maximum bet is" /\ res.info = maxBet

\* a host with an open Offer holds 495000: a wager of 5000 is refused with a
\* maximum bet of 4950
C17_Witness ==
    /\ \E a \in accounts :
           a.balance = 495000 /\ \E g \in games : g.host = a.owner
    /\ do_bet(Begin, 1, 5000, 1).info = 4950

\* everything the contract has received less everything it has paid out
Custody == (deposited + wagered) - paid

\* C18: what the contract has received (accepted deposits and accepted
\* wagers) less what pay() has paid out is the sum of all LedgerAccount
\* balances plus twice the wagers of all active Bets, so the contract holds
\* enough to pay every ledger balance and 2 * wager of every active Bet.
C18_Custody ==
    LET owed == SumBalances(accounts) + 2 * SumBets({m \in matches : IsActive(m)}) IN
    /\ Custody = owed
    /\ Custody >= 0
    /\ \A a \in accounts : Custody >= a.balance
    /\ \A m \in matches : IsActive(m) => Custody >= 2 * m.bet

\* two wagers of 5000 were matched, a collect has paid 10000 for one of them
\* and the other Bet is still active next to the host's account
C18_Witness ==
    /\ wagered = 10000
    /\ paid = 10000
    /\ accounts # {}
    /\ \E m \in matches : IsActive(m) /\ m.bet = 5000

\* C19: cancelCommit(host, commitment) succeeds only if the Bet stored under
\* the commitment's key records host as its host.
C19_OnlyHostCancels ==
    \A host \in Names, commitment \in Commitments :
        cancelcommit(host, commitment).ok =>
            \A m \in BetsWithKey(get_hash_prefix(commitment)) : m.host = host

\* the tables a committed transaction leaves, as the next one finds them
Committed(res) == [res EXCEPT !.pays = <<>>]

\* collect(player) run on the tables of db
CollectFrom(db, player) == CollectLoop(db, byplayer_from(db.mts, player), player, TRUE)

\* C20: the reveal that settles an active Bet makes one payment and the
\* collect that pays a Bet out removes it: the Bet's record is gone, a reveal
\* of the same commitment right after fails as not found, and a collect
\* right after pays only for Bets still on record, so nothing for that one.
C20_SettleOnce ==
    \A em \in {m \in matches : IsActive(m)} :
        LET key == match_primary_key(em)
            byReveal == reveal(em.commitment, em.commitment[1], TRUE)
            afterReveal == Committed(byReveal) IN
        /\ byReveal.ok =>
               /\ Len(byReveal.pays) = 1
               /\ ~\E m \in afterReveal.mts : match_primary_key(m) = key
               /\ \A source \in Sources :
                      LET again == reveal_from(afterReveal, em.commitment, source, TRUE) IN
                      /\ ~again.ok
                      /\ sha256(source) = em.commitment => again.err = "commitment not found"
               /\ \A player \in AnyName :
                      LET later == CollectFrom(afterReveal, player) IN
                      later.ok =>
                          SumPays(later.pays) = 2 * SumBets(afterReveal.mts \ later.mts)
        /\ \A player \in AnyName :
               LET byCollect == collect(player, TRUE)
                   afterCollect == Committed(byCollect) IN
               (byCollect.ok /\ em \notin byCollect.mts) =>
                   /\ SumPays(byCollect.pays) = 2 * SumBets(matches \ byCollect.mts)
                   /\ ~\E m \in afterCollect.mts : match_primary_key(m) = key
                   /\ \A source \in Sources :
                          LET again == reveal_from(afterCollect, em.commitment, source, TRUE) IN
                          /\ ~again.ok
                          /\ sha256(source) = em.commitment => again.err = "commitment not found"
                   /\ CollectFrom(afterCollect, player).pays = <<>>

\* an active Bet past its deadline whose commitment a known source opens:
\* both a reveal and a collect can settle it
C20_Witness ==
    \E em \in matches :
        /\ IsActive(em)
        /\ reveal(em.commitment, em.commitment[1], TRUE).ok
        /\ collect(em.player, TRUE).ok
        /\ em \notin collect(em.player, TRUE).mts

\* the keys a Bet can be committed under
BetKeys == {get_hash_prefix(c) : c \in Commitments} \ {ZERO_SOURCE}

\* an active Bet is on record under key
ActiveUnder(key) == \E m \in BetsWithKey(key) : IsActive(m)

\* an active Bet is on record under key, with a deadline that the clock of the
\* model can pass
ActiveAndDue(key) ==
    \E m \in BetsWithKey(key) : IsActive(m) /\ m.deadline + TickSecs <= MaxTime

\* a collect call naming the recorded player of a Bet past its deadline
\* goes through and removes the Bet
CollectEnabled ==
    \A player \in {m.player : m \in {x \in matches : IsActive(x) /\ now > x.deadline}} :
        LET res == collect(player, TRUE) IN
        /\ res.ok
        /\ \A em \in matches :
               (IsActive(em) /\ em.player = player /\ now > em.deadline) => em \notin res.mts

\* C21: once the time is past the deadline of an active Bet, a collect call
\* naming its recorded player is enabled and removes it; with time advancing
\* and each player's collect fair, every active Bet is eventually deleted,
\* whatever the host does.
C21_NoBetStuck ==
    /\ []CollectEnabled
    /\ \A key \in BetKeys : ActiveAndDue(key) ~> ~ActiveUnder(key)

\* an active Bet is past its deadline while its host has withdrawn the whole
\* balance and holds no account
C21_Witness ==
    \E em \in matches :
        /\ IsActive(em) /\ now > em.deadline
        /\ ~\E a \in accounts : a.owner = em.host

=============================================================================
